---------------------------- MODULE Spec2Model ----------------------------
(***************************************************************************)
(* Model of the SEO blog generator's orchestration layer (src/main.py):    *)
(* the video-id extractor, the pipeline orchestrator full_pipeline and the *)
(* HTTP endpoint run_pipeline.  The collaborators (transcript fetcher,     *)
(* section generators, domain aligner, rewriter) live in other packages of *)
(* the repository; they are modelled by their contract: each either raises *)
(* or populates its one field of the state record.                         *)
(*                                                                         *)
(* Python values are tagged records, dicts are functions from a fixed key  *)
(* set to values with Absent for a key that is not in the dict, and dict   *)
(* objects live on a heap so that aliasing between requests is something   *)
(* the model can express.                                                  *)
(***************************************************************************)
EXTENDS Naturals, Sequences, FiniteSets, TLC

VARIABLES
    pc,             \* per request: the orchestrator state of section 4.6 ("idle" before the request arrives)
    awaiting,       \* per request: the collaborator whose await is pending, or NoStep
    heap,           \* dict objects: object id -> dict
    request,        \* per request: the PipelineRequest the client posted
    state,          \* per request: full_pipeline's local state, the object run_pipeline built
                    \* as initial_state or the one a collaborator returned (an object id, 0 before)
    video_url,      \* per request: full_pipeline's local video_url
    transcript,     \* per request: full_pipeline's local transcript
    results,        \* per request: full_pipeline's local results dict
    response,       \* per request: the HTTP response, NoResponse until the request ends
    calls,          \* history: per request, the collaborators invoked so far, in order
    args,           \* history: per request and collaborator, the dict it was invoked with
    raised          \* history: per request, the exception that reached run_pipeline's handler

vars == <<pc, awaiting, heap, request, state, video_url, transcript,
          results, response, calls, args, raised>>

(***************************************************************************)
(* Bounds of the model.                                                    *)
(***************************************************************************)
Requests == {"r1", "r2"}

\* longest separator text in front of the first run of id characters
MaxHead == 2
\* longest separator text in front of the second run of id characters
MaxTailHead == 1
\* runs of id characters have IdLen - RunSlack .. IdLen + RunSlack characters (or none)
RunSlack == 1

(***************************************************************************)
(* Python values.                                                          *)
(***************************************************************************)
None == [tag |-> "None"]
Absent == [tag |-> "Absent"]
Str(s) == [tag |-> "str", s |-> s]
\* a request input the pipeline only passes on
In(r, f) == [tag |-> "input", req |-> r, field |-> f]
\* the text a collaborator generated for a request
Out(r, k) == [tag |-> "output", req |-> r, by |-> k]

IsStr(v) == v.tag = "str"
\* Python truthiness of None and of a string
Falsy(v) == v = None \/ (IsStr(v) /\ v.s = <<>>)
\* x or ""
OrEmpty(v) == IF Falsy(v) THEN Str(<<>>) ELSE v
\* dict.get(k): None for a missing key
Get(d, k) == IF d[k] = Absent THEN None ELSE d[k]
\* needle in haystack, for strings
Contains(hay, needle) ==
    \E i \in 1..(Len(hay) - Len(needle) + 1) :
        SubSeq(hay, i, i + Len(needle) - 1) = needle

(***************************************************************************)
(* extract_video_id's regular expression (?:v=|\/)([0-9A-Za-z_-]{11}).     *)
(***************************************************************************)
IdLen == 11

IdClass ==
    {"0", "1", "2", "3", "4", "5", "6", "7", "8", "9",
     "A", "B", "C", "D", "E", "F", "G", "H", "I", "J", "K", "L", "M",
     "N", "O", "P", "Q", "R", "S", "T", "U", "V", "W", "X", "Y", "Z",
     "a", "b", "c", "d", "e", "f", "g", "h", "i", "j", "k", "l", "m",
     "n", "o", "p", "q", "r", "s", "t", "u", "v", "w", "x", "y", "z",
     "_", "-"}

\* where the group would start if the prefix (?:v=|\/) matched at position i, 0 if it does not
GroupStart(url, i) ==
    IF i + 1 <= Len(url) /\ url[i] = "v" /\ url[i + 1] = "=" THEN i + 2
    ELSE IF i <= Len(url) /\ url[i] = "/" THEN i + 1
    ELSE 0

\* the whole pattern matches at position i
MatchAt(url, i) ==
    LET g == GroupStart(url, i) IN
    /\ g # 0
    /\ g + IdLen - 1 <= Len(url)
    /\ \A j \in g..(g + IdLen - 1) : url[j] \in IdClass

\* re.match: the pattern tried at the first position only
re_match(url) ==
    IF MatchAt(url, 1)
    THEN SubSeq(url, GroupStart(url, 1), GroupStart(url, 1) + IdLen - 1)
    ELSE <<>>

\* re.search(...).group(1): the group of the leftmost match, <<>> when nothing matches
\* (a group is never empty)
re_search(url) ==
    IF \E i \in 1..Len(url) : MatchAt(url, i)
    THEN LET i == CHOOSE i \in 1..Len(url) :
                      MatchAt(url, i) /\ \A j \in 1..(i - 1) : ~MatchAt(url, j)
             g == GroupStart(url, i)
         IN  SubSeq(url, g, g + IdLen - 1)
    ELSE <<>>


(***************************************************************************)
(* Dicts: the state record and the result mapping.                         *)
(***************************************************************************)
\* the keys run_pipeline creates
InitialKeys ==
    {"video_url", "domain_url", "raw_blog", "video_id", "transcript",
     "topic_keyword", "specific_details", "introduction", "refined_intro",
     "guide", "issue_troubleshoot", "conclusion", "cta", "customization_tips",
     "domain_aligned", "final_blog"}

\* every key the state record can hold
StateKeys ==
    InitialKeys \cup
    {"extracted_section", "extracted_keywords",
     "combined_data_keyword_specific_details", "combined_data",
     "domain_aligned_cta"}

\* the keys of PipelineResponse
ResultKeys ==
    {"Transcript", "Specific_Details", "Topic_Keyword", "Refined_Intro",
     "Guide", "Issue_Troubleshoot", "Conclusion", "CTA", "Customization_Tips",
     "Domain_Aligned", "Final_Blog", "error"}

\* results = {}
EmptyResults == [k \in ResultKeys |-> Absent]

\* run_pipeline's initial_state for a request
InitialState(posted) ==
    [k \in StateKeys |->
        IF k \in {"video_url", "domain_url", "raw_blog"} THEN posted[k]
        ELSE IF k \in InitialKeys THEN None
        ELSE Absent]

(***************************************************************************)
(* The heap of dict objects.                                               *)
(***************************************************************************)
NoRef == 0

\* one object shared by every request
AllocShared(h) == 1

\* a dict literal creates a new object: the first id not in use
Alloc(h) == CHOOSE n \in 1..(Cardinality(DOMAIN h) + 1) : n \notin DOMAIN h

\* the heap with object id holding d
Store(h, id, d) == [i \in DOMAIN h \cup {id} |-> IF i = id THEN d ELSE h[i]]

\* the heap without the objects no local variable that is still read refers to
Collect(h, st) ==
    [i \in {j \in DOMAIN h : \E r \in Requests : st[r] = j} |-> h[i]]

(***************************************************************************)
(* extract_video_id.                                                       *)
(***************************************************************************)
NoException == [tag |-> "None", by |-> "none", msg |-> None]
Exception(who, msg) == [tag |-> "exception", by |-> who, msg |-> msg]
\* str(e): the message the exception was built with
str(e) == e.msg

\* ValueError("Could not extract video ID from URL")
ExtractError ==
    Exception("extract_video_id", Str(<<"Could not extract video ID from URL">>))

\* the url the extractor searches: state.get("video_url") or ""
SearchedUrl(d) == OrEmpty(Get(d, "video_url")).s

\* the state record after extract_video_id found a match
extract_video_id(d) == [d EXCEPT !["video_id"] = Str(re_search(SearchedUrl(d)))]

(***************************************************************************)
(* The collaborators, by their contract.                                   *)
(***************************************************************************)
Fetcher == "get_transcript_with_backoff"

\* the order with the guide generated before the intro is refined
StepsGuideFirst ==
    <<"extract_specific_details", "generate_topic_keyword", "generate_intro",
      "generate_guide", "refine_intro", "generate_issue_troubleshooting",
      "generate_conclusion", "generate_cta", "generate_customization_tips",
      "domain_aligned", "rewrite_blog">>

Steps ==
    <<"extract_specific_details", "generate_topic_keyword", "generate_intro",
      "refine_intro", "generate_guide", "generate_issue_troubleshooting",
      "generate_conclusion", "generate_cta", "generate_customization_tips",
      "domain_aligned", "rewrite_blog">>

NoStep == "none"
StepSet == {Steps[i] : i \in 1..Len(Steps)}
Collaborators == {Fetcher} \cup StepSet
IndexOf(k) == CHOOSE i \in 1..Len(Steps) : Steps[i] = k

\* the field each collaborator populates
FieldOf(k) ==
    CASE k = Fetcher -> "transcript"
      [] k = "extract_specific_details" -> "extracted_section"
      [] k = "generate_topic_keyword" -> "extracted_keywords"
      [] k = "generate_intro" -> "introduction"
      [] k = "refine_intro" -> "refined_intro"
      [] k = "generate_guide" -> "guide"
      [] k = "generate_issue_troubleshooting" -> "issue_troubleshoot"
      [] k = "generate_conclusion" -> "conclusion"
      [] k = "generate_cta" -> "cta"
      [] k = "generate_customization_tips" -> "customization_tips"
      [] k = "domain_aligned" -> "domain_aligned_cta"
      [] k = "rewrite_blog" -> "final_blog"

\* the request whose inputs a state record carries
Owner(d) == d["domain_url"].req

\* what a collaborator generates from the state record it works on
Generated(d, k) ==
    IF k = "rewrite_blog"
    THEN [tag |-> "dict", Polished_Blog |-> Out(Owner(d), k)]
    ELSE Out(Owner(d), k)

\* the state record after collaborator k completed on it
CollabWrites(d, k) == [d EXCEPT ![FieldOf(k)] = Generated(d, k)]

\* the exception a failing collaborator raises
CollabError(d, k) == Exception(k, [tag |-> "message", req |-> Owner(d), by |-> k])

\* the retry-exhaustion marker of the transcript fetcher
Sentinel == <<"Failed", "after", "multiple", "retries">>

\* what the transcript fetcher can return
TranscriptOutputs ==
    {Str(<<>>), Str(Sentinel), Str(<<"text">> \o Sentinel \o <<"text">>),
     Str(<<"text">>), Str(<<"Failed", "after", "multiple">>)}

(***************************************************************************)
(* The orchestrator's states (section 4.6) and the endpoint's responses.   *)
(***************************************************************************)
PhaseAfter(k) ==
    CASE k = "extract_specific_details" -> "DetailsExtracted"
      [] k = "generate_topic_keyword" -> "KeywordExtracted"
      [] k = "generate_intro" -> "IntroGenerated"
      [] k = "refine_intro" -> "IntroRefined"
      [] k = "generate_guide" -> "GuideGenerated"
      [] k = "generate_issue_troubleshooting" -> "TroubleshootGenerated"
      [] k = "generate_conclusion" -> "ConclusionGenerated"
      [] k = "generate_cta" -> "CtaGenerated"
      [] k = "generate_customization_tips" -> "TipsGenerated"
      [] k = "domain_aligned" -> "DomainAligned"
      [] k = "rewrite_blog" -> "Rewritten"

NoResponse == [status |-> 0, body |-> None]
\* return results
Ok(body) == [status |-> 200, body |-> body]
\* raise HTTPException(status_code=500, detail=str(e))
ServerError(msg) == [status |-> 500, body |-> [detail |-> msg]]

\* the test without its second half: not transcript
UnavailableOnlyEmpty(t) == Falsy(t)

\* not transcript or "Failed after multiple retries" in transcript
Unavailable(t) == Falsy(t) \/ Contains(t.s, Sentinel)

\* {"error": f"Transcript not available for: {video_url}"}
ErrorResult(url) ==
    [EmptyResults EXCEPT
        !["error"] = Str(<<"Transcript not available for: ">> \o url.s)]

(***************************************************************************)
(* Orchestrator glue.                                                      *)
(***************************************************************************)
\* the transcript stored and the video id dropped
StoreTranscriptDropsId(d, t) == [d EXCEPT !["transcript"] = t, !["video_id"] = None]

\* state["transcript"] = transcript
StoreTranscript(d, t) == [d EXCEPT !["transcript"] = t]

\* the two sources swapped
CombinedKeywordDetailsSwapped(d) ==
    [tag |-> "dict",
     topic_keyword |-> Get(d, "extracted_section"),
     specific_details |-> Get(d, "extracted_keywords")]

\* the value of state["combined_data_keyword_specific_details"]
CombinedKeywordDetails(d) ==
    [tag |-> "dict",
     topic_keyword |-> Get(d, "extracted_keywords"),
     specific_details |-> Get(d, "extracted_section")]

\* the value of state["combined_data"]
CombinedData(d) ==
    [tag |-> "dict",
     introduction |-> Get(d, "refined_intro"),
     guide |-> Get(d, "guide"),
     issue_troubleshoot |-> Get(d, "issue_troubleshoot"),
     conclusion |-> Get(d, "conclusion"),
     cta |-> Get(d, "cta"),
     customization_tips |-> Get(d, "customization_tips")]

\* what the orchestrator writes into the state record once collaborator k is done
Glue(d, k) ==
    IF k = "generate_topic_keyword"
    THEN [d EXCEPT !["combined_data_keyword_specific_details"] = CombinedKeywordDetails(d)]
    ELSE IF k = "generate_customization_tips"
    THEN [d EXCEPT !["combined_data"] = CombinedData(d)]
    ELSE d

\* the orchestrator keeps what these return as its state; the first two steps'
\* return values go to locals nothing reads
Rebinds(k) == k \notin {"extract_specific_details", "generate_topic_keyword"}

\* the guide sends the orchestrator back to the intro
NextStepRetrying(k) ==
    IF k = "generate_guide" THEN "generate_intro"
    ELSE IF IndexOf(k) < Len(Steps) THEN Steps[IndexOf(k) + 1] ELSE NoStep

\* the collaborator awaited after k, NoStep after the last
NextStep(k) ==
    IF IndexOf(k) < Len(Steps) THEN Steps[IndexOf(k) + 1] ELSE NoStep

\* state["final_blog"]["Polished_Blog"] can be evaluated
HasPolishedBlog(d) ==
    /\ d["final_blog"] # Absent
    /\ d["final_blog"].tag = "dict"
    /\ "Polished_Blog" \in DOMAIN d["final_blog"]

\* the result with the refined intro left in as well
FinalResultsWithIntro(res, d) ==
    [res EXCEPT !["Final_Blog"] = d["final_blog"].Polished_Blog,
                !["Refined_Intro"] = Get(d, "refined_intro")]

\* results["Final_Blog"] = state["final_blog"]["Polished_Blog"]
FinalResults(res, d) ==
    [res EXCEPT !["Final_Blog"] = d["final_blog"].Polished_Blog]

\* a handler that answers the error as a normal result
ExceptionSwallowed(e) == Ok([EmptyResults EXCEPT !["error"] = str(e)])

\* run_pipeline's except clause
ExceptionResponse(e) == ServerError(str(e))

\* exception e leaves full_pipeline and run_pipeline answers it
Raises(r, e) ==
    /\ raised' = [raised EXCEPT ![r] = e]
    /\ response' = [response EXCEPT ![r] = ExceptionResponse(e)]

\* the collaborator is recorded as invoked with dict d
Invoked(r, k, d) ==
    /\ calls' = [calls EXCEPT ![r] = Append(@, k)]
    /\ args' = [args EXCEPT ![r][k] = d]

Running(r) == pc[r] # "idle" /\ response[r] = NoResponse

(***************************************************************************)
(* Request inputs.                                                         *)
(***************************************************************************)
RunChars == <<"a", "B", "3", "_", "d", "-", "7", "h", "I", "j", "0", "L", "m", "Z">>

\* n id characters, starting o characters into RunChars
RunFrom(o, n) == [i \in 1..n |-> RunChars[((o + i - 1) % Len(RunChars)) + 1]]

HeadChars == {"v", "=", "/", "?"}
Heads(n) == UNION {[1..k -> HeadChars] : k \in 0..n}
RunLens == {0} \cup ((IdLen - RunSlack)..(IdLen + RunSlack))

\* the urls the extractor is checked on
ExtractUrls ==
    {h1 \o RunFrom(0, n1) \o h2 \o RunFrom(5, n2) :
        h1 \in Heads(MaxHead), n1 \in RunLens,
        h2 \in Heads(MaxTailHead), n2 \in RunLens}

\* the urls the whole pipeline is run on
PipelineUrls ==
    {<<"/">> \o RunFrom(0, IdLen),
     <<"?", "v", "=">> \o RunFrom(1, IdLen),
     <<"?">> \o RunFrom(0, IdLen)}

NoRequest == [video_url |-> None, domain_url |-> None, raw_blog |-> None]

\* a PipelineRequest
Request(r, url) ==
    [video_url |-> Str(url),
     domain_url |-> In(r, "domain_url"),
     raw_blog |-> In(r, "raw_blog")]

(***************************************************************************)
(* Actions.                                                                *)
(***************************************************************************)
\* POST /run-pipeline arrives: run_pipeline builds initial_state and calls
\* full_pipeline, which reads its locals
Receive(r) ==
    /\ pc[r] = "idle"
    /\ \E url \in PipelineUrls :
        LET id == Alloc(heap)
            d == InitialState(Request(r, url))
        IN  /\ request' = [request EXCEPT ![r] = Request(r, url)]
            /\ heap' = Store(heap, id, d)
            /\ state' = [state EXCEPT ![r] = id]
            /\ video_url' = [video_url EXCEPT ![r] = OrEmpty(Get(d, "video_url"))]
    /\ results' = [results EXCEPT ![r] = EmptyResults]
    /\ pc' = [pc EXCEPT ![r] = "Start"]
    /\ UNCHANGED <<awaiting, transcript, response, calls, args, raised>>

\* an extractor that falls through instead of raising
extract_video_id_never_raises(d) == FALSE

\* the extractor finds no id in the url
extract_video_id_raises(d) == re_search(SearchedUrl(d)) = <<>>

\* extract_video_id(state)
ExtractVideoId(r) ==
    /\ pc[r] = "Start"
    /\ Running(r)
    /\ \/ /\ ~extract_video_id_raises(heap[state[r]])
          /\ heap' = [heap EXCEPT ![state[r]] = extract_video_id(@)]
          /\ pc' = [pc EXCEPT ![r] = "VideoIdExtracted"]
          /\ UNCHANGED <<response, raised>>
       \/ /\ extract_video_id_raises(heap[state[r]])
          /\ Raises(r, ExtractError)
          /\ UNCHANGED <<heap, pc>>
    /\ UNCHANGED <<awaiting, request, state, video_url, transcript,
                   results, calls, args>>

\* transcript = get_transcript_with_backoff(state)
FetchTranscript(r) ==
    /\ pc[r] = "VideoIdExtracted"
    /\ Running(r)
    /\ Invoked(r, Fetcher, heap[state[r]])
    /\ \/ /\ \E t \in TranscriptOutputs : transcript' = [transcript EXCEPT ![r] = t]
          /\ pc' = [pc EXCEPT ![r] = "TranscriptFetched"]
          /\ UNCHANGED <<response, raised>>
       \/ /\ Raises(r, CollabError(heap[state[r]], Fetcher))
          /\ UNCHANGED <<transcript, pc>>
    /\ UNCHANGED <<awaiting, heap, request, state, video_url, results>>

\* the transcript is missing: full_pipeline returns the error mapping
TranscriptUnavailable(r) ==
    /\ pc[r] = "TranscriptFetched"
    /\ Running(r)
    /\ awaiting[r] = NoStep
    /\ Unavailable(transcript[r])
    /\ pc' = [pc EXCEPT ![r] = "Failed"]
    /\ response' = [response EXCEPT ![r] = Ok(ErrorResult(video_url[r]))]
    /\ UNCHANGED <<awaiting, heap, request, state, video_url, transcript,
                   results, calls, args, raised>>

\* the transcript is there: it is stored and the first generator is awaited
TranscriptAvailable(r) ==
    /\ pc[r] = "TranscriptFetched"
    /\ Running(r)
    /\ awaiting[r] = NoStep
    /\ ~Unavailable(transcript[r])
    /\ heap' = [heap EXCEPT ![state[r]] = StoreTranscript(@, transcript[r])]
    /\ awaiting' = [awaiting EXCEPT ![r] = Steps[1]]
    /\ Invoked(r, Steps[1], heap'[state[r]])
    /\ UNCHANGED <<pc, request, state, video_url, transcript, results,
                   response, raised>>

\* the awaited collaborator completes: it has written its field into the dict
\* it was given, or into a copy that it returns; the orchestrator goes on to
\* the next await
CollaboratorReturns(r) ==
    /\ Running(r)
    /\ awaiting[r] # NoStep
    /\ LET k == awaiting[r] IN
       \E copy \in (IF Rebinds(k) THEN BOOLEAN ELSE {FALSE}) :
        LET ref == state[r]
            ret == IF copy THEN Alloc(heap) ELSE ref
            h1 == Store(heap, ret, CollabWrites(heap[ref], k))
            cur == IF Rebinds(k) THEN ret ELSE ref
            h2 == Store(h1, cur, Glue(h1[cur], k))
            st == [state EXCEPT ![r] = cur]
        IN  /\ state' = st
            /\ heap' = Collect(h2, st)
            /\ pc' = [pc EXCEPT ![r] = PhaseAfter(k)]
            /\ awaiting' = [awaiting EXCEPT ![r] = NextStep(k)]
            /\ IF NextStep(k) # NoStep
               THEN Invoked(r, NextStep(k), h2[cur])
               ELSE UNCHANGED <<calls, args>>
    /\ UNCHANGED <<request, video_url, transcript, results, response, raised>>

\* the awaited collaborator raises: the exception passes through full_pipeline
\* to run_pipeline's handler
CollaboratorRaises(r) ==
    /\ Running(r)
    /\ awaiting[r] # NoStep
    /\ Raises(r, CollabError(heap[state[r]], awaiting[r]))
    /\ awaiting' = [awaiting EXCEPT ![r] = NoStep]
    /\ UNCHANGED <<pc, heap, request, state, video_url, transcript,
                   results, calls, args>>

\* full_pipeline returns results and run_pipeline returns them
Finish(r) ==
    /\ pc[r] = "Rewritten"
    /\ Running(r)
    /\ awaiting[r] = NoStep
    /\ IF HasPolishedBlog(heap[state[r]])
       THEN /\ results' = [results EXCEPT ![r] = FinalResults(@, heap[state[r]])]
            /\ response' = [response EXCEPT ![r] = Ok(results'[r])]
            /\ pc' = [pc EXCEPT ![r] = "Done"]
            /\ UNCHANGED raised
       ELSE /\ Raises(r, Exception("full_pipeline", Str(<<"'Polished_Blog'">>)))
            /\ UNCHANGED <<results, pc>>
    /\ UNCHANGED <<awaiting, heap, request, state, video_url, transcript,
                   calls, args>>

(***************************************************************************)
(* Specifications.                                                         *)
(***************************************************************************)
NoArgs == [k \in Collaborators |-> Absent]

\* no request has arrived
Init ==
    /\ pc = [r \in Requests |-> "idle"]
    /\ awaiting = [r \in Requests |-> NoStep]
    /\ heap = <<>>
    /\ request = [r \in Requests |-> NoRequest]
    /\ state = [r \in Requests |-> NoRef]
    /\ video_url = [r \in Requests |-> None]
    /\ transcript = [r \in Requests |-> None]
    /\ results = [r \in Requests |-> EmptyResults]
    /\ response = [r \in Requests |-> NoResponse]
    /\ calls = [r \in Requests |-> <<>>]
    /\ args = [r \in Requests |-> NoArgs]
    /\ raised = [r \in Requests |-> NoException]

Next ==
    \E r \in Requests :
        \/ Receive(r)
        \/ ExtractVideoId(r)
        \/ FetchTranscript(r)
        \/ TranscriptUnavailable(r)
        \/ TranscriptAvailable(r)
        \/ CollaboratorReturns(r)
        \/ CollaboratorRaises(r)
        \/ Finish(r)

\* the requests of Requests, posted at any time and interleaved at every step
Spec == Init /\ [][Next]_vars

\* one request with any url of ExtractUrls, up to the end of extract_video_id
InitExtract ==
    /\ \E url \in ExtractUrls :
        LET d == InitialState(Request("r1", url))
        IN  /\ request = [r \in Requests |-> IF r = "r1" THEN Request("r1", url) ELSE NoRequest]
            /\ heap = Store(<<>>, Alloc(<<>>), d)
            /\ video_url = [r \in Requests |-> IF r = "r1" THEN OrEmpty(Get(d, "video_url")) ELSE None]
    /\ pc = [r \in Requests |-> IF r = "r1" THEN "Start" ELSE "idle"]
    /\ awaiting = [r \in Requests |-> NoStep]
    /\ state = [r \in Requests |-> IF r = "r1" THEN Alloc(<<>>) ELSE NoRef]
    /\ transcript = [r \in Requests |-> None]
    /\ results = [r \in Requests |-> EmptyResults]
    /\ response = [r \in Requests |-> NoResponse]
    /\ calls = [r \in Requests |-> <<>>]
    /\ args = [r \in Requests |-> NoArgs]
    /\ raised = [r \in Requests |-> NoException]

NextExtract == \E r \in Requests : ExtractVideoId(r)

SpecExtract == InitExtract /\ [][NextExtract]_vars

(***************************************************************************)
(* Vocabulary of the properties.                                           *)
(***************************************************************************)
\* the keys a dict holds
Keys(d) == {k \in DOMAIN d : d[k] # Absent}
\* the fields of a state record that hold a value
Populated(d) == {k \in DOMAIN d : d[k] # Absent /\ d[k] # None}

\* the request has been answered
Ended(r) == response[r] # NoResponse
\* the state record full_pipeline holds
Cur(r) == heap[state[r]]
\* the url the client posted
PostedUrl(r) == request[r].video_url.s

\* the positions of a url where 11 id characters follow "v=" or "/"
GroupStarts(url) ==
    {g \in 2..Len(url) :
        /\ g + 10 <= Len(url)
        /\ \/ url[g - 1] = "/"
           \/ (g >= 3 /\ url[g - 2] = "v" /\ url[g - 1] = "=")
        /\ \A j \in g..(g + 10) : url[j] \in IdClass}

First(S) == CHOOSE g \in S : \A h \in S : g <= h

\* extract_video_id has run for the request
Extracted(r) == pc[r] # "idle" /\ (pc[r] # "Start" \/ Ended(r))

\* the transcript fetcher has returned to the request
Fetched(r) == pc[r] \notin {"idle", "Start", "VideoIdExtracted"}

\* a transcript that is empty or holds the retry-exhaustion marker
BadTranscript(t) ==
    /\ t.tag = "str"
    /\ \/ t.s = <<>>
       \/ \E i \in 1..Len(t.s) :
            /\ i + 3 <= Len(t.s)
            /\ <<t.s[i], t.s[i + 1], t.s[i + 2], t.s[i + 3]>> =
                    <<"Failed", "after", "multiple", "retries">>

(***************************************************************************)
(* C1.  When the transcript fetcher returns an empty string or a string    *)
(* containing "Failed after multiple retries", no further collaborator is  *)
(* invoked for the request, and the request ends with the normal response  *)
(* whose only key is error, "Transcript not available for: <video_url>".   *)
(***************************************************************************)
C1_TranscriptFailure ==
    \A r \in Requests :
        (Fetched(r) /\ BadTranscript(transcript[r])) =>
            /\ calls[r] = <<Fetcher>>
            /\ awaiting[r] = NoStep
            /\ raised[r] = NoException
            /\ pc[r] \in {"TranscriptFetched", "Failed"}
            /\ Ended(r) =>
                /\ pc[r] = "Failed"
                /\ response[r].status = 200
                /\ Keys(response[r].body) = {"error"}
                /\ response[r].body["error"] =
                       Str(<<"Transcript not available for: ">> \o PostedUrl(r))

\* a request that ended on a transcript with the marker in the middle of other text
C1_Witness ==
    \E r \in Requests :
        /\ pc[r] = "Failed"
        /\ Ended(r)
        /\ BadTranscript(transcript[r])
        /\ Len(transcript[r].s) > 4

(***************************************************************************)
(* C5 as stated.  extract_video_id: for a url that holds "v=" followed by  *)
(* 11 characters of [0-9A-Za-z_-], or "/" followed by 11 such characters,  *)
(* video_id is written and is exactly those 11 characters; for every other *)
(* url the extractor fails with "Could not extract video ID from URL" and  *)
(* writes no video_id.                                                     *)
(***************************************************************************)
C5_EveryPlace ==
    \A r \in Requests :
        Extracted(r) =>
            LET url == PostedUrl(r)
                S == GroupStarts(url)
            IN  IF S # {}
                THEN /\ pc[r] # "Start"
                     /\ \A g \in S : Cur(r)["video_id"] = Str(SubSeq(url, g, g + 10))
                ELSE /\ pc[r] = "Start"
                     /\ raised[r].msg = Str(<<"Could not extract video ID from URL">>)
                     /\ Cur(r)["video_id"] = None

(***************************************************************************)
(* C5 as amended.  extract_video_id: when the url holds "v=" or "/"        *)
(* followed by 11 characters of [0-9A-Za-z_-], video_id is written and is  *)
(* exactly the 11 characters of the leftmost such place; for every other   *)
(* url the extractor fails with "Could not extract video ID from URL" and  *)
(* writes no video_id.                                                     *)
(***************************************************************************)
C5_ExtractVideoId ==
    \A r \in Requests :
        Extracted(r) =>
            LET url == PostedUrl(r)
                S == GroupStarts(url)
            IN  IF S # {}
                THEN /\ pc[r] # "Start"
                     /\ Cur(r)["video_id"] = Str(SubSeq(url, First(S), First(S) + 10))
                ELSE /\ pc[r] = "Start"
                     /\ raised[r].msg = Str(<<"Could not extract video ID from URL">>)
                     /\ Cur(r)["video_id"] = None

\* an id extracted from a url with two places to take it from, neither at
\* the start of the url
C5_Witness ==
    \E r \in Requests :
        /\ pc[r] = "VideoIdExtracted"
        /\ Cardinality(GroupStarts(PostedUrl(r))) = 2
        /\ PostedUrl(r)[1] = "?"
        /\ Cur(r)["video_id"].tag = "str"

(***************************************************************************)
(* C6.  When no video id can be extracted from the url, the request dies   *)
(* at the first step: neither the transcript fetcher nor any later         *)
(* collaborator is ever invoked, and the endpoint answers HTTP 500 with    *)
(* detail "Could not extract video ID from URL".                           *)
(***************************************************************************)
C6_UnextractableIsFatal ==
    \A r \in Requests :
        (pc[r] # "idle" /\ GroupStarts(PostedUrl(r)) = {}) =>
            /\ pc[r] = "Start"
            /\ calls[r] = <<>>
            /\ awaiting[r] = NoStep
            /\ Ended(r) =>
                response[r] =
                    [status |-> 500,
                     body |-> [detail |-> Str(<<"Could not extract video ID from URL">>)]]

\* a request answered 500 before anything was fetched
C6_Witness ==
    \E r \in Requests :
        /\ Ended(r)
        /\ pc[r] = "Start"
        /\ response[r].status = 500
        /\ GroupStarts(PostedUrl(r)) = {}

(***************************************************************************)
(* C2.  After a good transcript the collaborators are invoked once each in *)
(* the order extract_specific_details, generate_topic_keyword,             *)
(* generate_intro, refine_intro, generate_guide,                           *)
(* generate_issue_troubleshooting, generate_conclusion, generate_cta,      *)
(* generate_customization_tips, domain_aligned, rewrite_blog; a request    *)
(* that succeeds has invoked them all; only the last invoked one can be    *)
(* pending; each is handed a state record that holds the transcript, the   *)
(* video id and what every collaborator before it produced.                *)
(***************************************************************************)
ClaimedOrder ==
    <<"get_transcript_with_backoff",
      "extract_specific_details", "generate_topic_keyword", "generate_intro",
      "refine_intro", "generate_guide", "generate_issue_troubleshooting",
      "generate_conclusion", "generate_cta", "generate_customization_tips",
      "domain_aligned", "rewrite_blog">>

IsPrefix(a, b) == Len(a) <= Len(b) /\ SubSeq(b, 1, Len(a)) = a

\* C2: the collaborators are invoked once each, in the fixed order, one at a
\* time, each with what its predecessors produced; a request that ends after a
\* good transcript without an exception has invoked them all
C2_FixedOrder ==
    \A r \in Requests :
        /\ IsPrefix(calls[r], ClaimedOrder)
        /\ pc[r] = "Done" => calls[r] = ClaimedOrder
        /\ (Ended(r) /\ Fetched(r) /\ ~BadTranscript(transcript[r])
                /\ raised[r] = NoException) => calls[r] = ClaimedOrder
        /\ awaiting[r] # NoStep => awaiting[r] = calls[r][Len(calls[r])]
        /\ \A i \in 2..Len(calls[r]) :
            LET d == args[r][calls[r][i]] IN
            /\ d # Absent
            /\ d["transcript"] = transcript[r]
            /\ ~BadTranscript(d["transcript"])
            /\ d["video_id"].tag = "str"
            /\ \A j \in 2..(i - 1) :
                LET v == d[FieldOf(calls[r][j])] IN
                v.tag = "output" /\ v.by = calls[r][j] /\ v.req = r
            /\ i >= 4 => d["combined_data_keyword_specific_details"] # Absent
            /\ i >= 11 => d["combined_data"] # Absent

\* a request that went through every collaborator
C2_Witness ==
    \E r \in Requests :
        /\ pc[r] = "Done"
        /\ Len(calls[r]) = 12
        /\ raised[r] = NoException

(***************************************************************************)
(* C3.  An exception raised by a collaborator is never swallowed: the      *)
(* request ends with HTTP 500 whose detail is the exception's message, and *)
(* never with a 200 response.                                              *)
(***************************************************************************)
C3_ExceptionsSurface ==
    \A r \in Requests :
        raised[r] # NoException =>
            /\ response[r] = [status |-> 500, body |-> [detail |-> raised[r].msg]]
            /\ awaiting[r] = NoStep
            /\ pc[r] # "Done"

\* the domain aligner raised and the request was answered
C3_Witness ==
    \E r \in Requests :
        /\ raised[r].by = "domain_aligned"
        /\ Ended(r)

(***************************************************************************)
(* C4.  On the success path the response is exactly {"Final_Blog": v},     *)
(* v the Polished_Blog of the final_blog the rewriter wrote; no other key  *)
(* appears.                                                                *)
(***************************************************************************)
C4_OnlyFinalBlog ==
    \A r \in Requests :
        /\ pc[r] = "Done" =>
            /\ response[r].status = 200
            /\ Keys(response[r].body) = {"Final_Blog"}
            /\ response[r].body["Final_Blog"] = Cur(r)["final_blog"].Polished_Blog
            /\ response[r].body["Final_Blog"].by = "rewrite_blog"
        /\ (Ended(r) /\ calls[r] = ClaimedOrder /\ raised[r] = NoException) => pc[r] = "Done"

\* a response that carries the rewriter's text
C4_Witness ==
    \E r \in Requests :
        /\ pc[r] = "Done"
        /\ response[r].body["Final_Blog"].tag = "output"

(***************************************************************************)
(* C9.  When combined_data_keyword_specific_details is built (after the    *)
(* details extractor and the topic-keyword generator, before               *)
(* generate_intro is invoked) it is {topic_keyword: the extracted_keywords *)
(* the topic-keyword generator produced, specific_details: the             *)
(* extracted_section the details extractor produced} of this request.      *)
(***************************************************************************)
C9_CombinedKeywordDetails ==
    \A r \in Requests :
        args[r]["generate_intro"] # Absent =>
            LET d == args[r]["generate_intro"]
                c == d["combined_data_keyword_specific_details"]
            IN  /\ c # Absent
                /\ DOMAIN c = {"tag", "topic_keyword", "specific_details"}
                /\ c.topic_keyword = d["extracted_keywords"]
                /\ c.topic_keyword = Out(r, "generate_topic_keyword")
                /\ c.specific_details = d["extracted_section"]
                /\ c.specific_details = Out(r, "extract_specific_details")

\* the moment after the construction: generate_intro is pending
C9_Witness ==
    \E r \in Requests :
        /\ pc[r] = "KeywordExtracted"
        /\ awaiting[r] = "generate_intro"

(***************************************************************************)
(* C7.  The state record of a request only grows: across every step the    *)
(* keys it holds and the fields that hold a value are kept, and a field    *)
(* written by a step is not populated in the record handed to any          *)
(* collaborator invoked before that step.                                  *)
(***************************************************************************)
\* C7, second half: a field is not populated in the record handed to a
\* collaborator invoked before the step that writes it
C7_NotSeenEarlier ==
    \A r \in Requests :
        \A i \in 1..Len(calls[r]) :
            LET seen == Populated(args[r][calls[r][i]]) IN
            /\ \A j \in i..Len(calls[r]) : FieldOf(calls[r][j]) \notin seen
            /\ i <= 3 => "combined_data_keyword_specific_details" \notin seen
            /\ i <= 10 => "combined_data" \notin seen

\* C7, first half, for one step: keys and populated fields are kept
C7_Grows ==
    \A r \in Requests :
        state[r] # NoRef =>
            /\ Keys(heap[state[r]]) \subseteq Keys(heap'[state'[r]])
            /\ Populated(heap[state[r]]) \subseteq Populated(heap'[state'[r]])

\* C7: the state record only grows and no collaborator sees a later step's field
C7_StateOnlyGrows == [] C7_NotSeenEarlier /\ [][C7_Grows]_vars

\* a record that has grown by the two composite fields and the aligner's
C7_Witness ==
    \E r \in Requests :
        /\ pc[r] = "DomainAligned"
        /\ {"video_id", "transcript", "combined_data_keyword_specific_details",
            "combined_data", "domain_aligned_cta"} \subseteq Populated(Cur(r))
        /\ Cur(r) # args[r]["domain_aligned"]

(***************************************************************************)
(* C8.  Requests that run concurrently each own their state record: the    *)
(* records are different objects, everything in a request's record, in the *)
(* records its collaborators were handed, in its result mapping and in its *)
(* response comes from that request's own inputs and collaborator outputs. *)
(***************************************************************************)
Tagged(v) == IF v.tag \in {"input", "output", "message"} THEN {v.req} ELSE {}

\* the requests a value comes from
ValueReqs(v) ==
    IF v.tag = "dict"
    THEN UNION {Tagged(v[f]) : f \in DOMAIN v \ {"tag"}}
    ELSE Tagged(v)

DictReqs(d) == UNION {ValueReqs(d[k]) : k \in DOMAIN d}

\* C8: each request's record, collaborator arguments, results and response hold
\* only what comes from that request, and no two requests hold the same object
C8_Isolation ==
    \A r \in Requests :
        pc[r] # "idle" =>
            /\ \A q \in Requests \ {r} :
                pc[q] # "idle" =>
                    state[r] # state[q]
            /\ DictReqs(Cur(r)) = {r}
            /\ \A k \in DOMAIN request[r] : Cur(r)[k] = request[r][k]
            /\ video_url[r] = request[r].video_url
            /\ Cur(r)["transcript"] \in {None, transcript[r]}
            /\ \A k \in Collaborators :
                args[r][k] # Absent =>
                    /\ DictReqs(args[r][k]) = {r}
                    /\ args[r][k]["video_url"] = request[r].video_url
            /\ DictReqs(results[r]) \subseteq {r}
            /\ response[r].status = 200 =>
                /\ DictReqs(response[r].body) \subseteq {r}
                /\ pc[r] = "Failed" =>
                    response[r].body["error"] =
                        Str(<<"Transcript not available for: ">> \o PostedUrl(r))
            /\ response[r].status = 500 => ValueReqs(response[r].body.detail) \subseteq {r}

\* two requests suspended in the middle of the pipeline at the same time
C8_Witness ==
    /\ pc["r1"] = "GuideGenerated"
    /\ awaiting["r1"] = "generate_issue_troubleshooting"
    /\ pc["r2"] = "IntroGenerated"
    /\ awaiting["r2"] = "refine_intro"

(***************************************************************************)
(* C10.  The orchestrator moves strictly forward along Start,              *)
(* VideoIdExtracted, TranscriptFetched, then Failed or DetailsExtracted    *)
(* ... Rewritten, Done: one transition per completed step, no collaborator *)
(* invoked twice, Failed entered only from TranscriptFetched and only on   *)
(* an empty or marked transcript; a request that has ended never moves     *)
(* again.  As stated, a request ends only in Failed or Done.               *)
(***************************************************************************)
ClaimedEdges ==
    {<<"idle", "Start">>, <<"Start", "VideoIdExtracted">>,
     <<"VideoIdExtracted", "TranscriptFetched">>, <<"TranscriptFetched", "Failed">>,
     <<"TranscriptFetched", "DetailsExtracted">>,
     <<"DetailsExtracted", "KeywordExtracted">>, <<"KeywordExtracted", "IntroGenerated">>,
     <<"IntroGenerated", "IntroRefined">>, <<"IntroRefined", "GuideGenerated">>,
     <<"GuideGenerated", "TroubleshootGenerated">>,
     <<"TroubleshootGenerated", "ConclusionGenerated">>,
     <<"ConclusionGenerated", "CtaGenerated">>, <<"CtaGenerated", "TipsGenerated">>,
     <<"TipsGenerated", "DomainAligned">>, <<"DomainAligned", "Rewritten">>,
     <<"Rewritten", "Done">>}

\* C10 as stated, its last clause: Failed and Done are the only states in which
\* a request ends
C10_EndsOnlyInFailedOrDone ==
    \A r \in Requests : Ended(r) => pc[r] \in {"Failed", "Done"}

\* C10, for one step: only the edges of the chain are taken, Failed only on a
\* bad transcript, and nothing moves once the request is answered
C10_Forward ==
    \A r \in Requests :
        /\ pc'[r] # pc[r] => (<<pc[r], pc'[r]>> \in ClaimedEdges /\ ~Ended(r))
        /\ pc'[r] = "Failed" => BadTranscript(transcript'[r])
        /\ pc'[r] \notin {"idle", "Start", "VideoIdExtracted", "TranscriptFetched", "Failed"}
                => ~BadTranscript(transcript'[r])
        /\ Ended(r) => (response'[r] = response[r] /\ calls'[r] = calls[r]
                        /\ awaiting'[r] = awaiting[r])

\* C10, in every state: no collaborator twice; Failed and Done are answered
\* with 200; any other end is an exception answered with 500
C10_Ends ==
    \A r \in Requests :
        /\ \A i, j \in 1..Len(calls[r]) : calls[r][i] = calls[r][j] => i = j
        /\ pc[r] \in {"Failed", "Done"} => (Ended(r) /\ response[r].status = 200)
        /\ Ended(r) =>
            \/ pc[r] \in {"Failed", "Done"}
            \/ raised[r] # NoException /\ response[r].status = 500

\* C10 as amended: forward only, and a request ends in Failed, in Done, or with
\* HTTP 500 in the state it had reached when something raised
C10_ForwardOnly == [] C10_Ends /\ [][C10_Forward]_vars

\* a request that ended in the middle of the chain
C10_Witness ==
    \E r \in Requests :
        /\ Ended(r)
        /\ pc[r] = "GuideGenerated"
        /\ response[r].status = 500
        /\ raised[r].by = "generate_issue_troubleshooting"

=============================================================================
